---- MODULE Spec2Model ----
(***************************************************************************)
(* Model of the traffic-event / bus-route matching pipeline:               *)
(*   route_check.py  BusRouteTrafficMatcher (load_bus_routes, the          *)
(*                   geometric primitives, find_affected_routes,           *)
(*                   add_route_info_to_dataframe)                          *)
(*   test.py         geocode_road_name (the geocoding collaborator)        *)
(*   app.py          matcher initialisation and upload_traffic_events      *)
(*                                                                         *)
(* Numbers.  Python floats are modelled as exact rationals kept as         *)
(* integers.  Latitudes are drawn from {-60, 0, 60} degrees, where         *)
(* cos(lat) is rational (1/2 or 1), so that to_cartesian can be computed   *)
(* exactly: planar coordinates are expressed in units of 55660 m           *)
(* (= 111320 / 2), x = lng * 2cos(lat), y = 2 * lat.                       *)
(***************************************************************************)
EXTENDS Integers, Sequences, FiniteSets, TLC

(***************************************************************************)
(* Bounds of the model                                                     *)
(***************************************************************************)
\* SpecMatch: most points of a route path / most coordinates of an event
MaxRoutePts == 3
MaxEventPts == 3
\* Spec: most events of one feed
MaxEvents == 2

(***************************************************************************)
(* Values                                                                  *)
(***************************************************************************)
\* route_check.py:180/214/256  metres per degree of latitude
MetersPerDegree == 111320
\* the planar unit of the model, in metres (MetersPerDegree / 2)
UnitMeters == MetersPerDegree \div 2

Loc(la, ln) == [lat |-> la, lng |-> ln]

\* Python's str(): IDs keep their type, str() of an int is not that int
Str(v) == [type |-> "str", val |-> v.val]

InSeq(x, s) == \E k \in 1..Len(s) : s[k] = x

\* all sequences over S of length lo..hi
SeqsOf(S, lo, hi) == UNION {[1..n -> S] : n \in lo..hi}

(***************************************************************************)
(* Coordinate projection and geometric primitives                          *)
(***************************************************************************)
\* 2*cos(lat degrees) for the latitudes of the model
TwoCos(la) == IF la = 0 THEN 2 ELSE 1

\* to_cartesian: x = lng * 111320 * cos(radians(lat)), y = lat * 111320,
\* in units of UnitMeters; each point is scaled by its own latitude
to_cartesian(loc) == [x |-> loc.lng * TwoCos(loc.lat), y |-> loc.lat * 2]

Abs(n) == IF n < 0 THEN -n ELSE n
Max2(a, b) == IF a >= b THEN a ELSE b
Min2(a, b) == IF a <= b THEN a ELSE b

\* orientation(p, q, r): 0 collinear, 1 clockwise, 2 counter-clockwise.
\* val is an integer multiple of UnitMeters^2, so |val| < 1e-10 iff val = 0.
orientation(p, q, r) ==
    LET val == (q.y - p.y) * (r.x - q.x) - (q.x - p.x) * (r.y - q.y)
    IN  IF val = 0 THEN 0 ELSE IF val > 0 THEN 1 ELSE 2

\* on_segment(p, q, r): q inside the axis-aligned bounding box of p and r
on_segment(p, q, r) ==
    /\ q.x <= Max2(p.x, r.x) /\ q.x >= Min2(p.x, r.x)
    /\ q.y <= Max2(p.y, r.y) /\ q.y >= Min2(p.y, r.y)

\* mutant: the collinear cases are looked for on the first segment only
line_segments_intersect_first_only(line1_start, line1_end, line2_start, line2_end) ==
    LET p1 == to_cartesian(line1_start)
        p2 == to_cartesian(line1_end)
        p3 == to_cartesian(line2_start)
        p4 == to_cartesian(line2_end)
        o1 == orientation(p1, p2, p3)
        o2 == orientation(p1, p2, p4)
        o3 == orientation(p3, p4, p1)
        o4 == orientation(p3, p4, p2)
    IN  IF o1 # o2 /\ o3 # o4 THEN TRUE
        ELSE \/ (o1 = 0 /\ on_segment(p1, p3, p2))
             \/ (o2 = 0 /\ on_segment(p1, p4, p2))

\* mutant: the general case only, no special case for collinear points
line_segments_intersect_general_only(line1_start, line1_end, line2_start, line2_end) ==
    LET p1 == to_cartesian(line1_start)
        p2 == to_cartesian(line1_end)
        p3 == to_cartesian(line2_start)
        p4 == to_cartesian(line2_end)
    IN  /\ orientation(p1, p2, p3) # orientation(p1, p2, p4)
        /\ orientation(p3, p4, p1) # orientation(p3, p4, p2)

\* mutant: the bounding-box test is made without asking for collinearity
line_segments_intersect_box_only(line1_start, line1_end, line2_start, line2_end) ==
    LET p1 == to_cartesian(line1_start)
        p2 == to_cartesian(line1_end)
        p3 == to_cartesian(line2_start)
        p4 == to_cartesian(line2_end)
    IN  IF /\ orientation(p1, p2, p3) # orientation(p1, p2, p4)
           /\ orientation(p3, p4, p1) # orientation(p3, p4, p2)
        THEN TRUE
        ELSE \/ on_segment(p1, p3, p2)
             \/ on_segment(p1, p4, p2)
             \/ on_segment(p3, p1, p4)
             \/ on_segment(p3, p2, p4)

line_segments_intersect(line1_start, line1_end, line2_start, line2_end) ==
    LET p1 == to_cartesian(line1_start)
        p2 == to_cartesian(line1_end)
        p3 == to_cartesian(line2_start)
        p4 == to_cartesian(line2_end)
        o1 == orientation(p1, p2, p3)
        o2 == orientation(p1, p2, p4)
        o3 == orientation(p3, p4, p1)
        o4 == orientation(p3, p4, p2)
    IN  IF o1 # o2 /\ o3 # o4 THEN TRUE
        ELSE \/ (o1 = 0 /\ on_segment(p1, p3, p2))
             \/ (o2 = 0 /\ on_segment(p1, p4, p2))
             \/ (o3 = 0 /\ on_segment(p3, p1, p4))
             \/ (o4 = 0 /\ on_segment(p3, p2, p4))

RECURSIVE GCD(_, _)
GCD(a, b) == IF b = 0 THEN a ELSE GCD(b, a % b)

\* a/b <= c/d for a, c >= 0 and b, d > 0, by Euclid's algorithm: exact, and
\* no product is formed, so no intermediate value leaves 32 bits
RECURSIVE FracLeq(_, _, _, _)
FracLeq(a, b, c, d) ==
    LET qa == a \div b
        qc == c \div d
        ra == a % b
        rc == c % d
    IN  IF qa # qc THEN qa < qc
        ELSE IF ra = 0 THEN TRUE
        ELSE IF rc = 0 THEN FALSE
        ELSE FracLeq(d, rc, b, ra)

\* mutant: the tolerance is exclusive (distance_to_line >= tolerance_meters rejects)
PerpWithin_Exclusive(cross, len2, tolerance_meters) ==
    IF tolerance_meters = 0 THEN FALSE
    ELSE IF cross = 0 THEN TRUE
    ELSE LET A == cross * UnitMeters
             g == GCD(A, tolerance_meters)
             p == A \div g
             q == tolerance_meters \div g
         IN  ~FracLeq(len2 * q, p, p, q)

\* (cross / sqrt(len2)) * UnitMeters <= tolerance_meters, exactly:
\* with p/q = cross * UnitMeters / tolerance in lowest terms, p*p <= len2*q*q
PerpWithin(cross, len2, tolerance_meters) ==
    IF cross = 0 THEN TRUE
    ELSE IF tolerance_meters = 0 THEN FALSE
    ELSE LET A == cross * UnitMeters
             g == GCD(A, tolerance_meters)
             p == A \div g
             q == tolerance_meters \div g
         IN  FracLeq(p, q, len2 * q, p)

\* sqrt(d2) * UnitMeters <= tolerance_meters, exactly
DistWithin(d2, tolerance_meters) ==
    IF d2 = 0 THEN TRUE
    ELSE IF tolerance_meters < UnitMeters THEN FALSE
    ELSE LET g == GCD(UnitMeters, tolerance_meters)
             u == UnitMeters \div g
             t == tolerance_meters \div g
         IN  FracLeq(d2 * u, t, t, u)

\* mutant: the projection is clamped to the segment, a point that projects
\* outside it is measured against the nearer endpoint
point_on_line_segment_clamped(point, line_start, line_end, tolerance_meters) ==
    LET p == to_cartesian(point)
        a == to_cartesian(line_start)
        b == to_cartesian(line_end)
        ab_x == b.x - a.x
        ab_y == b.y - a.y
        ap_x == p.x - a.x
        ap_y == p.y - a.y
        bp_x == p.x - b.x
        bp_y == p.y - b.y
        cross_product == Abs(ap_x * ab_y - ap_y * ab_x)
        len2 == ab_x * ab_x + ab_y * ab_y
        dot_product == ap_x * ab_x + ap_y * ab_y
    IN  IF len2 = 0
        THEN DistWithin(ap_x * ap_x + ap_y * ap_y, tolerance_meters)
        ELSE IF dot_product < 0
        THEN DistWithin(ap_x * ap_x + ap_y * ap_y, tolerance_meters)
        ELSE IF dot_product > len2
        THEN DistWithin(bp_x * bp_x + bp_y * bp_y, tolerance_meters)
        ELSE PerpWithin(cross_product, len2, tolerance_meters)

point_on_line_segment(point, line_start, line_end, tolerance_meters) ==
    LET p == to_cartesian(point)
        a == to_cartesian(line_start)
        b == to_cartesian(line_end)
        ab_x == b.x - a.x
        ab_y == b.y - a.y
        ap_x == p.x - a.x
        ap_y == p.y - a.y
        cross_product == Abs(ap_x * ab_y - ap_y * ab_x)
        len2 == ab_x * ab_x + ab_y * ab_y
        dot_product == ap_x * ab_x + ap_y * ab_y
    IN  IF len2 = 0
        THEN \* the segment is a point: distance <= tolerance_meters
             DistWithin(ap_x * ap_x + ap_y * ap_y, tolerance_meters)
        ELSE \* distance_to_line = cross_product / line_length
             IF ~PerpWithin(cross_product, len2, tolerance_meters) THEN FALSE
             ELSE IF dot_product < 0 \/ dot_product > len2 THEN FALSE
             ELSE TRUE

\* mutant: i is appended at every intersecting pair, without the membership test
RECURSIVE PolyScan_NoDedupe(_, _, _, _)
PolyScan_NoDedupe(polyline1, polyline2, k, intersecting_segments) ==
    LET m == Len(polyline2) - 1
    IN  IF k >= (Len(polyline1) - 1) * m THEN intersecting_segments
        ELSE LET i == k \div m
                 j == k % m
                 hit == line_segments_intersect(polyline1[i + 1], polyline1[i + 2],
                                                polyline2[j + 1], polyline2[j + 2])
             IN  PolyScan_NoDedupe(polyline1, polyline2, k + 1,
                                   IF hit THEN Append(intersecting_segments, i)
                                   ELSE intersecting_segments)

\* the nested loops of polylines_intersect, pair k = (i, j) in loop order
RECURSIVE PolyScan(_, _, _, _)
PolyScan(polyline1, polyline2, k, intersecting_segments) ==
    LET m == Len(polyline2) - 1
    IN  IF k >= (Len(polyline1) - 1) * m THEN intersecting_segments
        ELSE LET i == k \div m
                 j == k % m
                 hit == line_segments_intersect(polyline1[i + 1], polyline1[i + 2],
                                                polyline2[j + 1], polyline2[j + 2])
             IN  PolyScan(polyline1, polyline2, k + 1,
                          IF hit /\ ~InSeq(i, intersecting_segments)
                          THEN Append(intersecting_segments, i)
                          ELSE intersecting_segments)

\* mutant: returns at the first intersecting pair
polylines_intersect_early(polyline1, polyline2) ==
    IF Len(polyline1) < 2 \/ Len(polyline2) < 2
    THEN [intersects |-> FALSE, segments |-> <<>>]
    ELSE LET segs == PolyScan(polyline1, polyline2, 0, <<>>)
         IN  [intersects |-> Len(segs) > 0,
              segments |-> IF Len(segs) > 0 THEN <<segs[1]>> ELSE <<>>]

polylines_intersect(polyline1, polyline2) ==
    IF Len(polyline1) < 2 \/ Len(polyline2) < 2
    THEN [intersects |-> FALSE, segments |-> <<>>]
    ELSE LET segs == PolyScan(polyline1, polyline2, 0, <<>>)
         IN  [intersects |-> Len(segs) > 0, segments |-> segs]

\* mutant: the loop does not return at the first hit, the last hit is reported
PointScan_LastHit(point, polyline, tolerance_meters, i) ==
    LET hits == {k \in i..(Len(polyline) - 2) :
                    point_on_line_segment(point, polyline[k + 1], polyline[k + 2],
                                          tolerance_meters)}
    IN  IF hits = {} THEN [found |-> FALSE, index |-> <<>>]
        ELSE [found |-> TRUE, index |-> <<CHOOSE k \in hits : \A h \in hits : h <= k>>]

\* the loop of point_on_polyline from segment i on; Optional[int] is <<>> or <<i>>
RECURSIVE PointScan(_, _, _, _)
PointScan(point, polyline, tolerance_meters, i) ==
    IF i >= Len(polyline) - 1 THEN [found |-> FALSE, index |-> <<>>]
    ELSE IF point_on_line_segment(point, polyline[i + 1], polyline[i + 2], tolerance_meters)
         THEN [found |-> TRUE, index |-> <<i>>]
         ELSE PointScan(point, polyline, tolerance_meters, i + 1)

point_on_polyline(point, polyline, tolerance_meters) ==
    IF Len(polyline) < 2 THEN [found |-> FALSE, index |-> <<>>]
    ELSE PointScan(point, polyline, tolerance_meters, 0)

(***************************************************************************)
(* The geocoding collaborator (test.py geocode_road_name)                  *)
(***************************************************************************)
\* row.geo is what the geocoding service does with this event's query:
\*   "results"       a non-empty list: its first entry's lat/lon is returned
\*   "error"         a dict with an error: (None, None) is returned
\*   "empty_list"    an empty list: the else branch calls data.get on a list,
\*                   AttributeError
\*   "network_error" requests.get raises: the exception propagates
geocode_road_name(row) ==
    IF row.geo.response = "results"
    THEN [raised |-> FALSE, found |-> TRUE, lat |-> row.geo.lat, lng |-> row.geo.lng]
    ELSE IF row.geo.response = "error"
    THEN [raised |-> FALSE, found |-> FALSE, lat |-> 0, lng |-> 0]
    ELSE [raised |-> TRUE, found |-> FALSE, lat |-> 0, lng |-> 0]

(***************************************************************************)
(* find_affected_routes                                                    *)
(***************************************************************************)
\* a raw coordinate is a JSON list; float(coord[0]), float(coord[1]) succeed
\* when it has two entries
Usable(coord) == Len(coord) >= 2

\* the try/except loop over the raw coordinates: Location(lat=coord[1], lng=coord[0])
RECURSIVE ParsePoints(_)
ParsePoints(coordinates) ==
    IF coordinates = <<>> THEN <<>>
    ELSE LET coord == Head(coordinates)
         IN  IF Usable(coord)
             THEN <<Loc(coord[2], coord[1])>> \o ParsePoints(Tail(coordinates))
             ELSE ParsePoints(Tail(coordinates))

NoLocation == [form |-> "unknown", n |-> 0, lat |-> 0, lng |-> 0]

NoPoints ==
    [raised |-> FALSE, event_points |-> <<>>, location_repr |-> NoLocation,
     is_polyline |-> FALSE]

\* lines 386-397: the else branch, "Fallback to geocoding"
GeocodeFallback(row, geocode_api_key) ==
    IF geocode_api_key # "" /\ row.road_name # "" /\ row.locality # ""
    THEN LET g == geocode_road_name(row)
         IN  IF g.raised THEN [NoPoints EXCEPT !.raised = TRUE]
             ELSE IF g.found
             THEN [raised |-> FALSE,
                   event_points |-> <<Loc(g.lat, g.lng)>>,
                   location_repr |-> [form |-> "latlng", n |-> 0,
                                      lat |-> g.lat, lng |-> g.lng],
                   is_polyline |-> FALSE]
             ELSE NoPoints
    ELSE NoPoints

\* lines 374-384: the branch taken when coordinates is a non-empty list
FromCoordinates(row) ==
    LET event_points == ParsePoints(row.coordinates)
    IN  [raised |-> FALSE,
         event_points |-> event_points,
         location_repr |-> [form |-> "polyline", n |-> Len(event_points),
                            lat |-> 0, lng |-> 0],
         is_polyline |-> Len(event_points) >= 2]

\* mutant: falls back to geocoding whenever fewer than 2 points are usable
ResolveGeometry_UsableCount(row, geocode_api_key) ==
    IF Len(ParsePoints(row.coordinates)) >= 2 THEN FromCoordinates(row)
    ELSE GeocodeFallback(row, geocode_api_key)

\* geometry resolution (lines 369-397): the coordinates when the list is not
\* empty, the geocoding fallback otherwise
ResolveGeometry(row, geocode_api_key) ==
    IF Len(row.coordinates) > 0 THEN FromCoordinates(row)
    ELSE GeocodeFallback(row, geocode_api_key)

TotalSegments(coordinates) ==
    IF Len(coordinates) > 1 THEN Len(coordinates) - 1 ELSE 0

\* one pass of the loop over self.route_directions: the entry appended for
\* route_direction, <<>> when no intersection is found
MatchDirection(event_points, is_polyline, route_direction, tolerance_meters) ==
    IF is_polyline
    THEN LET r == polylines_intersect(event_points, route_direction.coordinates)
         IN  IF r.intersects
             THEN <<[route_id |-> route_direction.route_id,
                     direction |-> route_direction.direction,
                     intersection_type |-> "polyline_intersection",
                     segment_indices |-> r.segments,
                     total_segments |-> TotalSegments(route_direction.coordinates)]>>
             ELSE <<>>
    ELSE LET r == point_on_polyline(event_points[1], route_direction.coordinates,
                                    tolerance_meters)
         IN  IF r.found
             THEN <<[route_id |-> route_direction.route_id,
                     direction |-> route_direction.direction,
                     intersection_type |-> "point_on_route",
                     segment_indices |-> r.index,
                     total_segments |-> TotalSegments(route_direction.coordinates)]>>
             ELSE <<>>

\* mutant: a new entry is put in front of the list
RECURSIVE ScanDirections_Prepend(_, _, _, _, _, _)
ScanDirections_Prepend(event_points, is_polyline, rds, tolerance_meters, k, affected_directions) ==
    IF k > Len(rds) THEN affected_directions
    ELSE ScanDirections_Prepend(event_points, is_polyline, rds, tolerance_meters, k + 1,
             MatchDirection(event_points, is_polyline, rds[k], tolerance_meters)
                 \o affected_directions)

\* the loop over self.route_directions from index k on, appending in scan order
RECURSIVE ScanDirections(_, _, _, _, _, _)
ScanDirections(event_points, is_polyline, rds, tolerance_meters, k, affected_directions) ==
    IF k > Len(rds) THEN affected_directions
    ELSE ScanDirections(event_points, is_polyline, rds, tolerance_meters, k + 1,
             affected_directions
                 \o MatchDirection(event_points, is_polyline, rds[k], tolerance_meters))

\* mutant: the entry is recorded without the test on affected_directions
ProcessRow_KeepEmpty(row, rds, tolerance_meters, geocode_api_key) ==
    LET geom == ResolveGeometry(row, geocode_api_key)
        none == [location |-> NoLocation, event_type |-> "point",
                 affected_directions |-> <<>>]
    IN  IF geom.raised THEN [outcome |-> "raise", entry |-> none]
        ELSE IF geom.event_points = <<>> THEN [outcome |-> "skip", entry |-> none]
        ELSE [outcome |-> "entry",
              entry |-> [location |-> geom.location_repr,
                         event_type |-> IF geom.is_polyline THEN "polyline" ELSE "point",
                         affected_directions |->
                             ScanDirections(geom.event_points, geom.is_polyline, rds,
                                            tolerance_meters, 1, <<>>)]]

\* the body of the loop over the rows, for one row
\*   outcome "raise": an exception leaves find_affected_routes
\*           "skip":  no usable location points (continue)
\*           "none":  no affected direction, nothing recorded
\*           "entry": results[event_id] = entry
ProcessRow(row, rds, tolerance_meters, geocode_api_key) ==
    LET geom == ResolveGeometry(row, geocode_api_key)
        none == [location |-> NoLocation, event_type |-> "point",
                 affected_directions |-> <<>>]
    IN  IF geom.raised THEN [outcome |-> "raise", entry |-> none]
        ELSE IF geom.event_points = <<>> THEN [outcome |-> "skip", entry |-> none]
        ELSE LET affected_directions ==
                     ScanDirections(geom.event_points, geom.is_polyline, rds,
                                    tolerance_meters, 1, <<>>)
             IN  IF affected_directions # <<>>
                 THEN [outcome |-> "entry",
                       entry |-> [location |-> geom.location_repr,
                                  event_type |-> IF geom.is_polyline THEN "polyline"
                                                 ELSE "point",
                                  affected_directions |-> affected_directions]]
                 ELSE [outcome |-> "none", entry |-> none]

EmptyResults == [id \in {} |-> 0]

\* the loop over traffic_df.iterrows() from row k on; results is keyed by str(ID)
RECURSIVE MatchRows(_, _, _, _, _, _)
MatchRows(traffic_df, rds, tolerance_meters, geocode_api_key, k, results) ==
    IF k > Len(traffic_df)
    THEN [raised |-> FALSE, results |-> results, route_directions |-> rds]
    ELSE LET r == ProcessRow(traffic_df[k], rds, tolerance_meters, geocode_api_key)
         IN  IF r.outcome = "raise"
             THEN [raised |-> TRUE, results |-> EmptyResults, route_directions |-> rds]
             ELSE MatchRows(traffic_df, rds, tolerance_meters, geocode_api_key, k + 1,
                     IF r.outcome = "entry"
                     THEN (Str(traffic_df[k].ID) :> r.entry) @@ results
                     ELSE results)

Reverse(q) == [k \in 1..Len(q) |-> q[Len(q) + 1 - k]]

\* mutant: the scan reorders self.route_directions in place
find_affected_routes_reordering(traffic_df, rds, tolerance_meters, geocode_api_key) ==
    IF Len(traffic_df) = 0
    THEN [raised |-> FALSE, results |-> EmptyResults, route_directions |-> rds]
    ELSE [MatchRows(traffic_df, rds, tolerance_meters, geocode_api_key, 1, EmptyResults)
             EXCEPT !.route_directions = Reverse(rds)]

\* find_affected_routes(traffic_df, tolerance_meters, geocode_api_key) of a
\* matcher whose self.route_directions is rds: the returned dict (or raised,
\* when an exception leaves it) and self.route_directions after the call
find_affected_routes(traffic_df, rds, tolerance_meters, geocode_api_key) ==
    IF Len(traffic_df) = 0
    THEN [raised |-> FALSE, results |-> EmptyResults, route_directions |-> rds]
    ELSE MatchRows(traffic_df, rds, tolerance_meters, geocode_api_key, 1, EmptyResults)

(***************************************************************************)
(* add_route_info_to_dataframe.  A Python string is a sequence of          *)
(* one-character strings, so that split() is computed, not assumed.        *)
(***************************************************************************)
\* mutant: truncates at the last sep (rsplit) instead of the first
RECURSIVE SplitFirst_AtLast(_, _)
SplitFirst_AtLast(s, sep) ==
    IF ~InSeq(sep, s) THEN s
    ELSE IF s[Len(s)] = sep THEN SubSeq(s, 1, Len(s) - 1)
    ELSE SplitFirst_AtLast(SubSeq(s, 1, Len(s) - 1), sep)

\* s.split(sep)[0]
RECURSIVE SplitFirst(_, _)
SplitFirst(s, sep) ==
    IF s = <<>> \/ Head(s) = sep THEN <<>>
    ELSE <<Head(s)>> \o SplitFirst(Tail(s), sep)

\* what follows the first sep of s (s has one)
RECURSIVE AfterSep(_, _)
AfterSep(s, sep) ==
    IF s = <<>> THEN <<>>
    ELSE IF Head(s) = sep THEN Tail(s)
    ELSE AfterSep(Tail(s), sep)

\* s.split(sep)[1]
SplitSecond(s, sep) == SplitFirst(AfterSep(s, sep), sep)

\* f"{direction['route_id']}|{direction['direction']}", kept once, in order
RECURSIVE Combos(_, _)
Combos(affected_directions, route_headsign_combos) ==
    IF affected_directions = <<>> THEN route_headsign_combos
    ELSE LET d == Head(affected_directions)
             combo == d.route_id \o <<"|">> \o d.direction
         IN  Combos(Tail(affected_directions),
                    IF InSeq(combo, route_headsign_combos) THEN route_headsign_combos
                    ELSE Append(route_headsign_combos, combo))

\* the enumerate(cleaned_routes) loop from combo k on: first occurrence of a
\* cleaned route wins, its headsign is kept
RECURSIVE UniqueCleaned(_, _, _, _)
UniqueCleaned(combos, k, unique_cleaned_routes, unique_headsigns) ==
    IF k > Len(combos)
    THEN [routes |-> unique_cleaned_routes, headsigns |-> unique_headsigns]
    ELSE LET raw_route == SplitFirst(combos[k], "|")
             headsign == SplitSecond(combos[k], "|")
             route == SplitFirst(raw_route, "-")
         IN  IF InSeq(route, unique_cleaned_routes)
             THEN UniqueCleaned(combos, k + 1, unique_cleaned_routes, unique_headsigns)
             ELSE UniqueCleaned(combos, k + 1, Append(unique_cleaned_routes, route),
                                Append(unique_headsigns, headsign))

\* mutant: one value is stored as a one-element list
CellOf_AlwaysList(items) == [kind |-> "list", items |-> items]

\* a cell of the route / headsign column
Unset == [kind |-> "unset", items |-> <<>>]
NoneCell == [kind |-> "None", items |-> <<>>]
\* unique[0] if len(unique) == 1 else unique
CellOf(items) ==
    IF Len(items) = 1 THEN [kind |-> "str", items |-> items]
    ELSE [kind |-> "list", items |-> items]

AnnotateRow(row, affected_routes) ==
    IF Str(row.ID) \in DOMAIN affected_routes
    THEN LET combos == Combos(affected_routes[Str(row.ID)].affected_directions, <<>>)
         IN  IF combos # <<>>
             THEN LET u == UniqueCleaned(combos, 1, <<>>, <<>>)
                  IN  [row EXCEPT !.route = CellOf(u.routes),
                                  !.headsign = CellOf(u.headsigns)]
             ELSE [row EXCEPT !.route = NoneCell, !.headsign = NoneCell]
    ELSE [row EXCEPT !.route = NoneCell, !.headsign = NoneCell]

\* mutant: only the rows found in affected_routes are kept
add_route_info_to_dataframe_matched_only(traffic_df, affected_routes) ==
    LET Matched(row) == Str(row.ID) \in DOMAIN affected_routes
        kept == SelectSeq(traffic_df, Matched)
    IN  [k \in 1..Len(kept) |-> AnnotateRow(kept[k], affected_routes)]

\* add_route_info_to_dataframe: the DataFrame after the call
add_route_info_to_dataframe(traffic_df, affected_routes) ==
    [k \in 1..Len(traffic_df) |-> AnnotateRow(traffic_df[k], affected_routes)]

(***************************************************************************)
(* load_bus_routes                                                         *)
(***************************************************************************)
\* [Location(lat=coord[1], lng=coord[0]) for coord in coordinates];
\* coord[1] raises IndexError on a coordinate with fewer than two entries
CoordsOk(coordinates) == \A k \in 1..Len(coordinates) : Usable(coordinates[k])

\* mutant: the pair is read as [lat, lng]
ToLocations_Unswapped(coordinates) ==
    [k \in 1..Len(coordinates) |-> Loc(coordinates[k][1], coordinates[k][2])]

ToLocations(coordinates) ==
    [k \in 1..Len(coordinates) |-> Loc(coordinates[k][2], coordinates[k][1])]

\* the inner loop over route_directions.items() of one route, from direction k
RECURSIVE LoadDirections(_, _, _, _)
LoadDirections(route_id, directions, k, rds) ==
    IF k > Len(directions) THEN [failed |-> FALSE, route_directions |-> rds]
    ELSE IF ~CoordsOk(directions[k].coordinates)
    THEN [failed |-> TRUE, route_directions |-> rds]
    ELSE LoadDirections(route_id, directions, k + 1,
             Append(rds, [route_id |-> route_id,
                          direction |-> directions[k].name,
                          coordinates |-> ToLocations(directions[k].coordinates)]))

\* the outer loop over data.items(), from route k
RECURSIVE LoadRoutes(_, _, _, _)
LoadRoutes(routes, k, rds, brs) ==
    IF k > Len(routes)
    THEN [failed |-> FALSE, route_directions |-> rds, bus_routes |-> brs]
    ELSE LET r == LoadDirections(routes[k].route_id, routes[k].directions, 1, rds)
         IN  IF r.failed
             THEN [failed |-> TRUE, route_directions |-> r.route_directions,
                   bus_routes |-> brs]
             ELSE LoadRoutes(routes, k + 1, r.route_directions,
                             Append(brs, [route_id |-> routes[k].route_id,
                                          directions |->
                                              [d \in 1..Len(routes[k].directions) |->
                                                  [name |-> routes[k].directions[d].name,
                                                   coordinates |-> ToLocations(
                                                       routes[k].directions[d].coordinates)]]]))

\* load_bus_routes(json_file_path) on a matcher holding rds, brs.
\*   failed: an exception was met (and logged by the except clause)
\*   raised: an exception leaves load_bus_routes
load_bus_routes(file, rds, brs) ==
    LET r == IF ~file.readable
             THEN [failed |-> TRUE, route_directions |-> rds, bus_routes |-> brs]
             ELSE LoadRoutes(file.routes, 1, rds, brs)
    IN  [failed |-> r.failed, raised |-> FALSE,
         route_directions |-> r.route_directions, bus_routes |-> r.bus_routes]

(***************************************************************************)
(* State                                                                   *)
(***************************************************************************)
VARIABLES
    pc,               \* position in app.py: start-up, then upload_traffic_events
    file,             \* ./data/route_data.json as found at start-up
    route_directions, \* matcher.route_directions
    bus_routes,       \* matcher.bus_routes
    load_failed,      \* load_bus_routes met (and logged) an exception
    matcher,          \* app.py's matcher: "matcher" or "None"
    config,           \* the environment variables read at import
    feed,             \* what get_traffic_events returned in this cycle
    df,               \* the DataFrame of this cycle
    affected_routes,  \* the dict returned by find_affected_routes
    analysis,         \* how the route analysis of this cycle ended
    uploaded,         \* the call of upload_to_db of this cycle
    table,            \* the rows of the Supabase table
    call,             \* a direct call of a method of the matcher: name and arguments
    ret               \* what that call returned: <<>> before it returns, then <<value>>

vars == <<pc, file, route_directions, bus_routes, load_failed, matcher, config,
          feed, df, affected_routes, analysis, uploaded, table, call, ret>>

\* no direct call is made while app.py runs
NoCall == [fn |-> "none", args |-> <<>>]

(***************************************************************************)
(* Inputs                                                                  *)
(***************************************************************************)
\* raw [lng, lat] coordinates; cBad has one entry only
cW == <<-1, 0>>
cE == <<1, 0>>
cN == <<0, 60>>
cS == <<0, -60>>
cBad == <<0>>

\* app.py:76  tolerance_meters=1.0
ToleranceMeters == 1

RouteIdAt(k) == <<<<"6", "-", "1">>, <<"6", "-", "2">>, <<"7">>, <<"8", "-", "1">>>>[k]
Dir(n, c) == [name |-> n, coordinates |-> c]

\* the directions of one route of the file: name -> coordinates
RouteShapes ==
    { <<Dir(<<"A">>, <<cW, cE>>)>>,
      <<Dir(<<"A">>, <<cS, cN>>), Dir(<<"B">>, <<cE, cW>>)>>,
      <<Dir(<<"A">>, <<cW, cE>>), Dir(<<"B">>, <<cS, cBad>>)>> }

\* most routes of the route file
MaxRoutes == 2

FilesOfLen(n) ==
    {[readable |-> TRUE,
      routes |-> [k \in 1..n |-> [route_id |-> RouteIdAt(k), directions |-> shapes[k]]]] :
        shapes \in [1..n -> RouteShapes]}

\* the route file: missing or unparsable, or a mapping of routes
FileSet ==
    {[readable |-> FALSE, routes |-> <<>>]} \cup UNION {FilesOfLen(n) : n \in 0..MaxRoutes}

\* what the geocoding service answers to an event's query
GeoResults(la, ln) == [response |-> "results", lat |-> la, lng |-> ln]
GeoError == [response |-> "error", lat |-> 0, lng |-> 0]
GeoEmptyList == [response |-> "empty_list", lat |-> 0, lng |-> 0]
GeoNetworkError == [response |-> "network_error", lat |-> 0, lng |-> 0]

Feature(c, rn, loc, g, lga) ==
    [coordinates |-> c, road_name |-> rn, locality |-> loc, geo |-> g, in_region |-> lga]

\* the features of the traffic feed (without their ID)
FeatureSet ==
    {Feature(c, "Main St", "Town", GeoError, TRUE) :
        c \in {<<cW>>, <<cW, cE>>, <<cN, cBad, cS, cE>>}}
    \cup {Feature(<<>>, "Main St", "Town", g, TRUE) :
        g \in {GeoResults(0, 0), GeoResults(60, 1), GeoError, GeoNetworkError}}
    \cup {Feature(<<>>, "", "Town", GeoResults(0, 0), TRUE),
          Feature(<<cW, cE>>, "Main St", "Town", GeoError, FALSE)}

IntId(n) == [type |-> "int", val |-> n]

\* feeds of n features; the feed gives each event its own id
FeedsOfLen(n) ==
    {[k \in 1..n |-> [ID |-> IntId(k)] @@ fs[k]] : fs \in [1..n -> FeatureSet]}

\* what get_traffic_events returns: None (HTTP or request error), a payload
\* without 'features', or a payload with features
FeedSet ==
    {[kind |-> "None", features |-> <<>>], [kind |-> "no_features", features |-> <<>>]}
    \cup {[kind |-> "features", features |-> f] :
            f \in UNION {FeedsOfLen(n) : n \in 0..MaxEvents}}

NoFeed == [kind |-> "not_fetched", features |-> <<>>]
\* get: how the read of the table ended; existing: the rows it returned;
\* requests: the PATCH and POST requests sent, in order
NotUploaded ==
    [called |-> FALSE, records |-> <<>>, get |-> "none", existing |-> <<>>,
     requests |-> <<>>]

ConfigSet == [env_ok : BOOLEAN, geocode_api_key : {"", "key"}]

(***************************************************************************)
(* convert_to_df                                                           *)
(***************************************************************************)
\* one row per feature, then the filter on local_government_area
RECURSIVE FilterRegion(_)
FilterRegion(features) ==
    IF features = <<>> THEN <<>>
    ELSE LET e == Head(features)
             row == [ID |-> e.ID, road_name |-> e.road_name, locality |-> e.locality,
                     coordinates |-> e.coordinates, geo |-> e.geo,
                     route |-> Unset, headsign |-> Unset]
         IN  IF e.in_region THEN <<row>> \o FilterRegion(Tail(features))
             ELSE FilterRegion(Tail(features))

\* an empty 'features' gives a DataFrame without columns:
\* df['duration_start'] raises KeyError
convert_to_df(response) ==
    IF response.features = <<>> THEN [raised |-> TRUE, df |-> <<>>]
    ELSE [raised |-> FALSE, df |-> FilterRegion(response.features)]

(***************************************************************************)
(* upload_to_db                                                            *)
(***************************************************************************)
\* the 'resolved' column: null, or a string; Stamp is the
\* datetime.now().strftime(...) of a cycle
Null == "null"
Stamp == "resolved_date"

Row(id, resolved) == [ID |-> id, resolved |-> resolved]

\* if item.get('ID'): a row whose ID is 0 gets no entry
Truthy(id) == ~(id.type = "int" /\ id.val = 0)

\* not item.get('resolved') or item.get('resolved').strip() == ''
ResolvedEmpty(item) == item.resolved \in {Null, "", " "}

\* id_lookup = {str(item.get('ID')): item for item in existing_data if item.get('ID')}
\* in the order of existing_data
RECURSIVE IdLookup(_)
IdLookup(existing_data) ==
    IF existing_data = <<>> THEN <<>>
    ELSE LET item == Head(existing_data)
             rest == IdLookup(Tail(existing_data))
         IN  IF Truthy(item.ID) THEN <<[key |-> Str(item.ID), item |-> item]>> \o rest
             ELSE rest

\* set(df['ID'].astype(str).tolist())
DfIds(data) == {Str(data[k].ID) : k \in 1..Len(data)}

\* key in id_lookup: a key of the dict equals the value, type included
\* (an int is equal to no str)
InLookup(item_id, id_lookup) == \E j \in 1..Len(id_lookup) : id_lookup[j].key = item_id

\* PATCH ...?ID=eq.{supabase_id} with {'resolved': resolved_date}
PatchResolved(tbl, supabase_id) ==
    [i \in 1..Len(tbl) |->
        IF Str(tbl[i].ID) = supabase_id THEN [tbl[i] EXCEPT !.resolved = Stamp]
        ELSE tbl[i]]

\* lines 117-130, from entry k of id_lookup on.  writes_ok: the server
\* answers the writes of this cycle with 200/201; otherwise the error is
\* logged and the loop goes on
RECURSIVE StampLoop(_, _, _, _, _)
StampLoop(id_lookup, k, df_ids, writes_ok, acc) ==
    IF k > Len(id_lookup) THEN acc
    ELSE LET supabase_id == id_lookup[k].key
             item == id_lookup[k].item
         IN  IF supabase_id \notin df_ids /\ ResolvedEmpty(item)
             THEN StampLoop(id_lookup, k + 1, df_ids, writes_ok,
                      [requests |-> Append(acc.requests,
                                           [op |-> "resolved", id |-> supabase_id]),
                       table |-> IF writes_ok THEN PatchResolved(acc.table, supabase_id)
                                 ELSE acc.table])
             ELSE StampLoop(id_lookup, k + 1, df_ids, writes_ok, acc)

\* the table has ID as its key: a POST of a stored ID is answered 409
Stored(tbl, id) == \E i \in 1..Len(tbl) : Str(tbl[i].ID) = Str(id)

\* lines 132-151, from row k of data on: PATCH [item] when item['ID'] is a
\* key of id_lookup (the row keeps its 'resolved'), POST [item] otherwise
RECURSIVE WriteLoop(_, _, _, _, _)
WriteLoop(data, k, id_lookup, writes_ok, acc) ==
    IF k > Len(data) THEN acc
    ELSE LET item_id == data[k].ID
         IN  IF InLookup(item_id, id_lookup)
             THEN WriteLoop(data, k + 1, id_lookup, writes_ok,
                      [acc EXCEPT !.requests = Append(@, [op |-> "update", id |-> item_id])])
             ELSE WriteLoop(data, k + 1, id_lookup, writes_ok,
                      [requests |-> Append(acc.requests, [op |-> "insert", id |-> item_id]),
                       table |-> IF writes_ok /\ ~Stored(acc.table, item_id)
                                 THEN Append(acc.table, Row(item_id, Null))
                                 ELSE acc.table])

\* how requests.get(endpoint) ends: a list of rows, a RequestException
\* (lines 153-156), a body that is not a list (lines 109-111)
GetOutcomes == {"list", "error", "not_list"}

\* upload_to_db(df, ...) against the table tbl
upload_to_db(df_, tbl, get, writes_ok) ==
    IF get # "list" THEN [existing |-> <<>>, requests |-> <<>>, table |-> tbl]
    ELSE LET id_lookup == IdLookup(tbl)
             stamped == StampLoop(id_lookup, 1, DfIds(df_), writes_ok,
                                  [requests |-> <<>>, table |-> tbl])
             written == WriteLoop(df_, 1, id_lookup, writes_ok, stamped)
         IN  [existing |-> tbl, requests |-> written.requests, table |-> written.table]

(***************************************************************************)
(* app.py                                                                  *)
(***************************************************************************)
Init ==
    /\ pc = "startup"
    /\ file \in FileSet
    /\ config \in ConfigSet
    /\ route_directions = <<>>
    /\ bus_routes = <<>>
    /\ load_failed = FALSE
    /\ matcher = "matcher"
    /\ feed = NoFeed
    /\ df = <<>>
    /\ affected_routes = EmptyResults
    /\ analysis = "not_run"
    /\ uploaded = NotUploaded
    /\ table = <<>>
    /\ call = NoCall
    /\ ret = <<>>

\* app.py 30-38: matcher = BusRouteTrafficMatcher(); try: load_bus_routes,
\* calculate_road_segments; except Exception: matcher = None
Startup ==
    /\ pc = "startup"
    /\ LET r == load_bus_routes(file, <<>>, <<>>)
       IN  /\ route_directions' = r.route_directions
           /\ bus_routes' = r.bus_routes
           /\ load_failed' = r.failed
           /\ matcher' = IF r.raised THEN "None" ELSE "matcher"
    /\ pc' = "idle"
    /\ UNCHANGED <<file, config, feed, df, affected_routes, analysis, uploaded>>
    /\ UNCHANGED <<table, call, ret>>

\* mutant: a feed call that returns nothing, or no 'features', is taken
\* for a feed without events and the cycle goes on to the upload
FetchEvents_OutageAsEmpty ==
    /\ pc = "idle"
    /\ IF ~config.env_ok
       THEN feed' = NoFeed /\ pc' = "done"
       ELSE \E data \in FeedSet :
               /\ feed' = data
               /\ pc' = IF data.kind = "features" THEN "fetched" ELSE "analysed"
    /\ UNCHANGED <<file, route_directions, bus_routes, load_failed, matcher, config,
                   df, affected_routes, analysis, uploaded>>
    /\ UNCHANGED <<table, call, ret>>

\* upload_traffic_events, lines 41-63: the environment check and the API call
FetchEvents ==
    /\ pc = "idle"
    /\ IF ~config.env_ok
       THEN feed' = NoFeed /\ pc' = "done"
       ELSE \E data \in FeedSet :
               /\ feed' = data
               /\ pc' = IF data.kind = "features" THEN "fetched" ELSE "done"
    /\ UNCHANGED <<file, route_directions, bus_routes, load_failed, matcher, config,
                   df, affected_routes, analysis, uploaded>>
    /\ UNCHANGED <<table, call, ret>>

\* lines 65-68: df = convert_to_df(data); an exception ends the cycle (line 95)
ConvertEvents ==
    /\ pc = "fetched"
    /\ LET r == convert_to_df(feed)
       IN  /\ df' = r.df
           /\ pc' = IF r.raised THEN "done" ELSE "converted"
    /\ UNCHANGED <<file, route_directions, bus_routes, load_failed, matcher, config,
                   feed, affected_routes, analysis, uploaded>>
    /\ UNCHANGED <<table, call, ret>>

\* mutant: no inner try/except, an exception of the route analysis reaches
\* the outer except clause and ends the cycle
AnalyseRoutes_Unguarded ==
    /\ pc = "converted"
    /\ IF matcher = "None"
       THEN /\ analysis' = "no_matcher"
            /\ pc' = "analysed"
            /\ UNCHANGED <<df, affected_routes, route_directions>>
       ELSE LET r == find_affected_routes(df, route_directions, ToleranceMeters,
                                          config.geocode_api_key)
            IN  IF r.raised
                THEN /\ analysis' = "find_raised"
                     /\ pc' = "done"
                     /\ route_directions' = r.route_directions
                     /\ UNCHANGED <<df, affected_routes>>
                ELSE /\ affected_routes' = r.results
                     /\ route_directions' = r.route_directions
                     /\ \E annotate_fault \in BOOLEAN :
                            IF annotate_fault
                            THEN /\ analysis' = "annotate_raised"
                                 /\ pc' = "done"
                                 /\ UNCHANGED df
                            ELSE /\ analysis' = "complete"
                                 /\ pc' = "analysed"
                                 /\ df' = add_route_info_to_dataframe(df, r.results)
    /\ UNCHANGED <<file, bus_routes, load_failed, matcher, config, feed, uploaded>>
    /\ UNCHANGED <<table, call, ret>>

\* lines 70-89: the route analysis inside its own try/except.
\* annotate_fault: an exception raised inside add_route_info_to_dataframe
\* (at line 463, before any cell is written)
AnalyseRoutes ==
    /\ pc = "converted"
    /\ IF matcher = "None"
       THEN /\ analysis' = "no_matcher"
            /\ UNCHANGED <<df, affected_routes, route_directions>>
       ELSE LET r == find_affected_routes(df, route_directions, ToleranceMeters,
                                          config.geocode_api_key)
            IN  IF r.raised
                THEN /\ analysis' = "find_raised"
                     /\ route_directions' = r.route_directions
                     /\ UNCHANGED <<df, affected_routes>>
                ELSE /\ affected_routes' = r.results
                     /\ route_directions' = r.route_directions
                     /\ \E annotate_fault \in BOOLEAN :
                            IF annotate_fault
                            THEN analysis' = "annotate_raised" /\ UNCHANGED df
                            ELSE /\ analysis' = "complete"
                                 /\ df' = add_route_info_to_dataframe(df, r.results)
    /\ pc' = "analysed"
    /\ UNCHANGED <<file, bus_routes, load_failed, matcher, config, feed, uploaded>>
    /\ UNCHANGED <<table, call, ret>>

\* lines 91-94: upload_to_db(df, ...); an exception that leaves it is logged
\* at line 96
UploadEvents ==
    /\ pc = "analysed"
    /\ \E get \in GetOutcomes, writes_ok \in BOOLEAN :
           LET r == upload_to_db(df, table, get, writes_ok)
           IN  /\ uploaded' = [called |-> TRUE, records |-> df, get |-> get,
                               existing |-> r.existing, requests |-> r.requests]
               /\ table' = r.table
    /\ pc' = "done"
    /\ UNCHANGED <<file, route_directions, bus_routes, load_failed, matcher, config,
                   feed, df, affected_routes, analysis>>
    /\ UNCHANGED <<call, ret>>

\* upload_traffic_events has returned and is called again: its locals are gone
NextCycle ==
    /\ pc = "done"
    /\ pc' = "idle"
    /\ feed' = NoFeed
    /\ df' = <<>>
    /\ affected_routes' = EmptyResults
    /\ analysis' = "not_run"
    /\ uploaded' = NotUploaded
    /\ UNCHANGED <<file, route_directions, bus_routes, load_failed, matcher, config>>
    /\ UNCHANGED <<table, call, ret>>

Next ==
    Startup \/ FetchEvents \/ ConvertEvents \/ AnalyseRoutes \/ UploadEvents \/ NextCycle

Spec == Init /\ [][Next]_vars

(***************************************************************************)
(* The route analysis on its own: every state upload_traffic_events can    *)
(* be in at line 70, for one route direction and one event drawn from      *)
(* all short paths over a few points                                       *)
(***************************************************************************)
cO == <<0, 0>>
cSE == <<1, -60>>

MatchFileSet ==
    {[readable |-> TRUE,
      routes |-> <<[route_id |-> RouteIdAt(1),
                    directions |-> <<Dir(<<"A">>, c)>>]>>] :
        c \in SeqsOf({cW, cE, cN}, 0, MaxRoutePts)}

\* an event and the geocoding key of the run; the key is only read for an
\* event without coordinates
MatchInputSet ==
    {[feature |-> Feature(c, "Main St", "Town", GeoError, TRUE), key |-> "key"] :
        c \in SeqsOf({cW, cO, cN, cSE, cBad}, 1, MaxEventPts)}
    \cup {[feature |-> Feature(<<>>, rn, loc, g, TRUE), key |-> key] :
        rn \in {"", "Main St"}, loc \in {"", "Town"}, key \in {"", "key"},
        g \in {GeoResults(0, 0), GeoResults(60, 1), GeoError, GeoEmptyList,
               GeoNetworkError}}

InitMatch ==
    /\ pc = "converted"
    /\ file \in MatchFileSet
    /\ \E in \in MatchInputSet :
        /\ config = [env_ok |-> TRUE, geocode_api_key |-> in.key]
        /\ feed = [kind |-> "features", features |-> <<[ID |-> IntId(1)] @@ in.feature>>]
    /\ LET r == load_bus_routes(file, <<>>, <<>>)
       IN  /\ route_directions = r.route_directions
           /\ bus_routes = r.bus_routes
           /\ load_failed = r.failed
    /\ matcher = "matcher"
    /\ df = convert_to_df(feed).df
    /\ affected_routes = EmptyResults
    /\ analysis = "not_run"
    /\ uploaded = NotUploaded
    /\ table = <<>>
    /\ call = NoCall
    /\ ret = <<>>

NextMatch == AnalyseRoutes

SpecMatch == InitMatch /\ [][NextMatch]_vars

\* app.py 98-102: one execution of the process calls upload_traffic_events
\* once
NextRun == Startup \/ FetchEvents \/ ConvertEvents \/ AnalyseRoutes \/ UploadEvents

PcValues == {"startup", "idle", "fetched", "converted", "analysed", "done"}

\* the next statement is executed: the process is sequential and none of its
\* statements waits for another process, so a run that has not reached the
\* end of upload_traffic_events goes on.  Every step of NextRun changes pc
\* and NextRun has a step wherever pc is not "done", so this is weak
\* fairness of NextRun, stated on pc alone.
Advance == pc # "done" /\ pc' \in PcValues /\ pc' # pc

FairSpec == Init /\ [][NextRun]_vars /\ WF_pc(Advance)

(***************************************************************************)
(* The cycles of upload_traffic_events against a table that holds rows     *)
(* when the process starts, for two route files                            *)
(***************************************************************************)
\* the rows stored by earlier runs: none; an open row of event 1 and an open
\* row of an event that has left the feed; a resolved row of event 2 and a
\* row whose ID is 0
TableSet ==
    {<<>>,
     <<Row(IntId(1), Null), Row(Str(IntId(9)), "")>>,
     <<Row(IntId(2), Stamp), Row(IntId(0), Null)>>}

\* route files of one direction and of three
DbFileSet ==
    {[readable |-> TRUE,
      routes |-> <<[route_id |-> RouteIdAt(1),
                    directions |-> <<Dir(<<"A">>, <<cW, cE>>)>>]>>],
     [readable |-> TRUE,
      routes |-> <<[route_id |-> RouteIdAt(1),
                    directions |-> <<Dir(<<"A">>, <<cS, cN>>), Dir(<<"B">>, <<cE, cW>>)>>],
                   [route_id |-> RouteIdAt(2),
                    directions |-> <<Dir(<<"A">>, <<cW, cE>>)>>]>>]}

\* start-up is over
InitDb ==
    /\ pc = "idle"
    /\ file \in DbFileSet
    /\ config \in [env_ok : BOOLEAN, geocode_api_key : {"key"}]
    /\ LET r == load_bus_routes(file, <<>>, <<>>)
       IN  /\ route_directions = r.route_directions
           /\ bus_routes = r.bus_routes
           /\ load_failed = r.failed
    /\ matcher = "matcher"
    /\ feed = NoFeed
    /\ df = <<>>
    /\ affected_routes = EmptyResults
    /\ analysis = "not_run"
    /\ uploaded = NotUploaded
    /\ table \in TableSet
    /\ call = NoCall
    /\ ret = <<>>

NextDb == FetchEvents \/ ConvertEvents \/ AnalyseRoutes \/ UploadEvents \/ NextCycle

SpecDb == InitDb /\ [][NextDb]_vars

(***************************************************************************)
(* Direct calls of the methods of BusRouteTrafficMatcher: a caller holds a  *)
(* matcher and calls one method with arguments of its choice                *)
(***************************************************************************)
\* the longitudes of the points of a direct call are -1..MaxLng degrees
MaxLng == 2

\* latitudes whose cosine is rational
LatSet == {-60, 0, 60}

LocSet == {Loc(la, ln) : la \in LatSet, ln \in -1..MaxLng}

\* the Locations of cW, cE, cN, cS: the points of the paths of a direct call
PathLocSet == {Loc(c[2], c[1]) : c \in {cW, cE, cN, cS}}

\* tolerance_meters of a direct call: 0, the 1.0 of app.py, and one and two
\* degrees of longitude on the equator
ToleranceSet == {0, ToleranceMeters, MetersPerDegree, 2 * MetersPerDegree}

\* the arguments of a direct call of each method
LineSegmentsIntersectCalls ==
    \E a \in LocSet, b \in LocSet, c \in LocSet, d \in LocSet :
        call = [fn |-> "line_segments_intersect", args |-> <<a, b, c, d>>]

PointOnLineSegmentCalls ==
    \E p \in LocSet, a \in LocSet, b \in LocSet, t \in ToleranceSet :
        call = [fn |-> "point_on_line_segment", args |-> <<p, a, b, t>>]

PolylinesIntersectCalls ==
    \E n1 \in 0..MaxEventPts, n2 \in 0..MaxRoutePts :
        \E p1 \in [1..n1 -> PathLocSet], p2 \in [1..n2 -> PathLocSet] :
            call = [fn |-> "polylines_intersect", args |-> <<p1, p2>>]

PointOnPolylineCalls ==
    \E p \in {Loc(0, 0), Loc(0, 1), Loc(60, 1)}, n \in 0..MaxRoutePts,
       t \in {ToleranceMeters, MetersPerDegree} :
        \E path \in [1..n -> PathLocSet] :
            call = [fn |-> "point_on_polyline", args |-> <<p, path, t>>]

\* most affected directions of an event of a direct call
MaxDirs == 3

\* raw route ids: one separator, the same prefix again, none, two separators
RouteIdSet ==
    {<<"6", "-", "1">>, <<"6", "-", "2">>, <<"7">>, <<"7", "-", "1", "-", "2">>}

\* direction names (destinations) are free text
DirectionNameSet == {<<"A">>, <<"B">>, <<"A", "|", "B">>}

AffectedDirection(rid, name) ==
    [route_id |-> rid, direction |-> name, intersection_type |-> "polyline_intersection",
     segment_indices |-> <<0>>, total_segments |-> 1]

AffectedDirectionSet ==
    {AffectedDirection(rid, name) : rid \in RouteIdSet, name \in DirectionNameSet}

MatchEntry(ads) ==
    [location |-> [form |-> "polyline", n |-> 2, lat |-> 0, lng |-> 0],
     event_type |-> "polyline", affected_directions |-> ads]

\* the dict handed to add_route_info_to_dataframe: empty, or an entry for
\* event 1, alone or next to an entry for an event that is not in the frame
MatchResultOf(ads, keys) ==
    IF keys = "none" THEN EmptyResults
    ELSE IF keys = "event" THEN (Str(IntId(1)) :> MatchEntry(ads))
    ELSE (Str(IntId(1)) :> MatchEntry(ads)) @@ (Str(IntId(9)) :> MatchEntry(ads))

\* the frame of convert_to_df for events 1..n
FrameOfLen(n) ==
    [k \in 1..n |->
        [ID |-> IntId(k), road_name |-> "Main St", locality |-> "Town",
         coordinates |-> <<cW, cE>>, geo |-> GeoError, route |-> Unset, headsign |-> Unset]]

AddRouteInfoCalls ==
    \E n \in {1, MaxEvents}, k \in 0..MaxDirs, keys \in {"none", "event", "event_and_other"} :
        /\ keys = "none" => k = 0
        /\ keys = "event_and_other" => k = 1
        /\ \E ads \in [1..k -> AffectedDirectionSet] :
            call = [fn |-> "add_route_info_to_dataframe",
                    args |-> <<FrameOfLen(n), MatchResultOf(ads, keys)>>]

InitLib ==
    /\ pc = "library"
    /\ file = [readable |-> FALSE, routes |-> <<>>]
    /\ config = [env_ok |-> FALSE, geocode_api_key |-> ""]
    /\ route_directions = <<>>
    /\ bus_routes = <<>>
    /\ load_failed = FALSE
    /\ matcher = "matcher"
    /\ feed = NoFeed
    /\ df = <<>>
    /\ affected_routes = EmptyResults
    /\ analysis = "not_run"
    /\ uploaded = NotUploaded
    /\ table = <<>>
    /\ \/ LineSegmentsIntersectCalls
       \/ PointOnLineSegmentCalls
       \/ PolylinesIntersectCalls
       \/ PointOnPolylineCalls
       \/ AddRouteInfoCalls
    /\ ret = <<>>

\* the call returns value; a method reads and writes nothing but its
\* arguments
Return(value) ==
    /\ ret = <<>>
    /\ ret' = <<value>>
    /\ UNCHANGED <<pc, file, route_directions, bus_routes, load_failed, matcher, config,
                   feed, df, affected_routes, analysis, uploaded, table, call>>

CallLineSegmentsIntersect ==
    /\ call.fn = "line_segments_intersect"
    /\ Return(line_segments_intersect(call.args[1], call.args[2], call.args[3],
                                      call.args[4]))

CallPointOnLineSegment ==
    /\ call.fn = "point_on_line_segment"
    /\ Return(point_on_line_segment(call.args[1], call.args[2], call.args[3],
                                    call.args[4]))

CallPolylinesIntersect ==
    /\ call.fn = "polylines_intersect"
    /\ Return(polylines_intersect(call.args[1], call.args[2]))

CallPointOnPolyline ==
    /\ call.fn = "point_on_polyline"
    /\ Return(point_on_polyline(call.args[1], call.args[2], call.args[3]))

\* the frame is annotated in place: the value is the frame after the call
CallAddRouteInfo ==
    /\ call.fn = "add_route_info_to_dataframe"
    /\ Return(add_route_info_to_dataframe(call.args[1], call.args[2]))

NextLib ==
    \/ CallAddRouteInfo
    \/ CallLineSegmentsIntersect
    \/ CallPointOnLineSegment
    \/ CallPolylinesIntersect
    \/ CallPointOnPolyline

SpecLib == InitLib /\ [][NextLib]_vars

(***************************************************************************)
(* Vocabulary of the properties                                            *)
(***************************************************************************)
\* find_affected_routes has returned its dict in this cycle
MatchReturned == analysis \in {"complete", "annotate_raised"}

\* the usable (lng, lat) pairs of a row, as Locations, in order
UsablePoints(row) ==
    LET u == SelectSeq(row.coordinates, Usable)
    IN  [k \in 1..Len(u) |-> Loc(u[k][2], u[k][1])]

HasEntry(row) == Str(row.ID) \in DOMAIN affected_routes
EntryOf(row) == affected_routes[Str(row.ID)]

\* the entries of row's affected_directions that name route direction rd
EntriesFor(row, rd) ==
    IF HasEntry(row)
    THEN {k \in 1..Len(EntryOf(row).affected_directions) :
            /\ EntryOf(row).affected_directions[k].route_id = rd.route_id
            /\ EntryOf(row).affected_directions[k].direction = rd.direction}
    ELSE {}

\* the event segments i that intersect some segment j of path
HitSegments(ev, path) ==
    {i \in 0..(Len(ev) - 2) :
        \E j \in 0..(Len(path) - 2) :
            line_segments_intersect(ev[i + 1], ev[i + 2], path[j + 1], path[j + 2])}

SeqSet(s) == {s[k] : k \in 1..Len(s)}

\* point p lies on some segment of path within the tolerance of the run
PointOnPath(p, path) ==
    \E i \in 1..(Len(path) - 1) :
        point_on_line_segment(p, path[i], path[i + 1], ToleranceMeters)

GeocodeAvailable(row) ==
    config.geocode_api_key # "" /\ row.road_name # "" /\ row.locality # ""

GeoPoint(row) == Loc(row.geo.lat, row.geo.lng)

(***************************************************************************)
(* C1                                                                      *)
(***************************************************************************)
\* C1: for an event resolved as a polyline (at least 2 usable points), a
\* route direction is listed in the event's affected_directions if and only
\* if some event segment i and some route segment j satisfy
\* line_segments_intersect; it is then listed once, with intersection_type
\* 'polyline_intersection', and its segment_indices are exactly the event
\* segments i that intersect some route segment.
C1_PolylineMatch ==
    MatchReturned =>
        \A k \in 1..Len(df) : \A d \in 1..Len(route_directions) :
            LET ev == UsablePoints(df[k])
                rd == route_directions[d]
                hits == HitSegments(ev, rd.coordinates)
                es == EntriesFor(df[k], rd)
            IN  Len(ev) >= 2 =>
                    /\ (es # {}) <=> (hits # {})
                    /\ \A e \in es :
                        LET a == EntryOf(df[k]).affected_directions[e]
                        IN  /\ a.intersection_type = "polyline_intersection"
                            /\ SeqSet(a.segment_indices) = hits
                            /\ Len(a.segment_indices) = Cardinality(hits)

\* an event of two segments of which only the second intersects the route
C1_Witness ==
    /\ MatchReturned
    /\ Len(df) = 1 /\ Len(route_directions) = 1
    /\ Len(UsablePoints(df[1])) = 3
    /\ HasEntry(df[1])
    /\ EntryOf(df[1]).affected_directions[1].segment_indices = <<1>>

(***************************************************************************)
(* C2                                                                      *)
(***************************************************************************)
\* C2 as claimed: an event is matched in polyline mode when its coordinates
\* hold at least 2 usable pairs; in every other case (0 or 1 usable pairs),
\* when a key, road name and locality are available, its point is the one
\* the geocoding collaborator returns and it is matched in point mode with
\* that point.
C2_Original ==
    MatchReturned =>
        \A k \in 1..Len(df) :
            LET row == df[k]
                n == Len(UsablePoints(row))
            IN  /\ (n >= 2 /\ HasEntry(row)) => EntryOf(row).event_type = "polyline"
                /\ (n < 2 /\ GeocodeAvailable(row)) =>
                       /\ HasEntry(row) <=>
                              /\ row.geo.response = "results"
                              /\ \E d \in 1..Len(route_directions) :
                                     PointOnPath(GeoPoint(row), route_directions[d].coordinates)
                       /\ HasEntry(row) =>
                              /\ EntryOf(row).event_type = "point"
                              /\ EntryOf(row).location =
                                     [form |-> "latlng", n |-> 0,
                                      lat |-> row.geo.lat, lng |-> row.geo.lng]

\* C2 amended: an event is matched in polyline mode when its coordinates
\* hold at least 2 usable pairs.  When the coordinate list is not empty and
\* holds exactly 1 usable pair, the event is matched in point mode with that
\* pair and the geocoder is not consulted; when it is not empty and holds no
\* usable pair, the event has no entry.  Only when the coordinate list is
\* empty is the point obtained from the geocoding collaborator (when a key,
\* road name and locality are available), and the event is then matched in
\* point mode with the geocoded point.
C2_Amended ==
    MatchReturned =>
        \A k \in 1..Len(df) :
            LET row == df[k]
                pts == UsablePoints(row)
                n == Len(pts)
                onSome(p) == \E d \in 1..Len(route_directions) :
                                 PointOnPath(p, route_directions[d].coordinates)
            IN  /\ (n >= 2 /\ HasEntry(row)) =>
                       /\ EntryOf(row).event_type = "polyline"
                       /\ EntryOf(row).location.form = "polyline"
                /\ (Len(row.coordinates) > 0 /\ n = 1) =>
                       /\ HasEntry(row) <=> onSome(pts[1])
                       /\ HasEntry(row) =>
                              /\ EntryOf(row).event_type = "point"
                              /\ EntryOf(row).location =
                                     [form |-> "polyline", n |-> 1, lat |-> 0, lng |-> 0]
                /\ (Len(row.coordinates) > 0 /\ n = 0) => ~HasEntry(row)
                /\ (Len(row.coordinates) = 0 /\ GeocodeAvailable(row)) =>
                       /\ HasEntry(row) <=>
                              (row.geo.response = "results" /\ onSome(GeoPoint(row)))
                       /\ HasEntry(row) =>
                              /\ EntryOf(row).event_type = "point"
                              /\ EntryOf(row).location =
                                     [form |-> "latlng", n |-> 0,
                                      lat |-> row.geo.lat, lng |-> row.geo.lng]

\* an event with one usable pair among its coordinates, whose geocoder gives
\* no point, is matched in point mode with that pair
C2_Witness ==
    /\ MatchReturned
    /\ \E k \in 1..Len(df) :
        /\ Len(df[k].coordinates) = 2
        /\ Len(UsablePoints(df[k])) = 1
        /\ GeocodeAvailable(df[k])
        /\ HasEntry(df[k])
        /\ EntryOf(df[k]).event_type = "point"

(***************************************************************************)
(* C3                                                                      *)
(***************************************************************************)
\* the dict find_affected_routes returns for the batch made of row alone
AloneMatches(row) ==
    LET r == find_affected_routes(<<row>>, route_directions, ToleranceMeters,
                                  config.geocode_api_key)
    IN  ~r.raised /\ DOMAIN r.results # {}

\* C3: failure isolation is per event: when processing one event raises,
\* that event is skipped and every other event of the batch is still
\* processed, so an event that matches a route direction on its own has its
\* entry in the MatchResult of the batch.
C3_PerEventIsolation ==
    (pc = "analysed" /\ matcher = "matcher") =>
        \A k \in 1..Len(df) : AloneMatches(df[k]) => HasEntry(df[k])

(***************************************************************************)
(* C4                                                                      *)
(***************************************************************************)
\* C4: a failure to open or parse the route file in load_bus_routes is
\* reported to the caller: after start-up a failed load has set matcher to
\* None, and find_affected_routes is never run on a matcher whose load
\* failed.
C4_LoadFailureDisablesMatcher ==
    /\ (pc # "startup" /\ load_failed) => matcher = "None"
    /\ load_failed => analysis \in {"not_run", "no_matcher"}

(***************************************************************************)
(* C5                                                                      *)
(***************************************************************************)
\* C5: load_bus_routes is all-or-nothing: when the load fails at any point,
\* route_directions and bus_routes hold no entry of the file.
C5_AllOrNothing ==
    load_failed => (route_directions = <<>> /\ bus_routes = <<>>)

(***************************************************************************)
(* C6                                                                      *)
(***************************************************************************)
\* the rows as convert_to_df made them, without the annotation columns
Unannotated(rows) ==
    [k \in 1..Len(rows) |-> [rows[k] EXCEPT !.route = Unset, !.headsign = Unset]]

\* C6: whenever the feed was fetched and converted, upload_to_db is
\* eventually called with the event records of that cycle, whatever the
\* route analysis does (matcher None, find_affected_routes raises,
\* add_route_info_to_dataframe raises).
C6_UploadAlways ==
    (pc = "converted") ~>
        (uploaded.called /\ Unannotated(uploaded.records) = convert_to_df(feed).df)

\* the upload took place although find_affected_routes raised
C6_Witness ==
    /\ uploaded.called
    /\ analysis = "find_raised"
    /\ Len(uploaded.records) = 2

(***************************************************************************)
(* C7                                                                      *)
(***************************************************************************)
\* the geocoding fallback of row cannot produce a point
CannotGeocode(row) ==
    /\ Len(row.coordinates) = 0
    /\ (~GeocodeAvailable(row) \/ row.geo.response # "results")

\* the geocoding call made for row raises
GeocodeRaises(row) ==
    /\ Len(row.coordinates) = 0
    /\ GeocodeAvailable(row)
    /\ row.geo.response \in {"empty_list", "network_error"}

\* C7: an event without coordinates whose geocoding fallback cannot produce
\* a point (key, road name or locality missing, or no location returned by
\* the geocoder) is skipped: it has no entry in the MatchResult, and it does
\* not make find_affected_routes fail.
C7_SkippedQuietly ==
    pc = "analysed" =>
        \A k \in 1..Len(df) :
            CannotGeocode(df[k]) =>
                /\ ~HasEntry(df[k])
                /\ analysis = "find_raised" =>
                       \E j \in 1..Len(df) : j # k /\ GeocodeRaises(df[j])

(***************************************************************************)
(* C8                                                                      *)
(***************************************************************************)
\* C8: the MatchResult never holds an entry whose affected_directions is
\* empty.
C8_NoEmptyEntry ==
    \A id \in DOMAIN affected_routes : affected_routes[id].affected_directions # <<>>

\* a batch of two located events: the first, geocoded to a point that lies
\* on no route, has no entry, the second has one
C8_Witness ==
    /\ MatchReturned
    /\ Len(df) = 2
    /\ Len(df[1].coordinates) = 0
    /\ GeocodeAvailable(df[1]) /\ df[1].geo.response = "results"
    /\ ~HasEntry(df[1])
    /\ HasEntry(df[2])
    /\ route_directions # <<>>

(***************************************************************************)
(* C9                                                                      *)
(***************************************************************************)
PairOf(x) == [route_id |-> x.route_id, direction |-> x.direction]
Pairs(q) == [k \in 1..Len(q) |-> PairOf(q[k])]

\* C9: for every event of the MatchResult, affected_directions lists the
\* affected route directions in the order of route_directions, each once:
\* it is the route index restricted to the listed directions.
C9_IndexOrder ==
    \A id \in DOMAIN affected_routes :
        LET listed == Pairs(affected_routes[id].affected_directions)
            Kept(x) == x \in SeqSet(listed)
        IN  listed = SelectSeq(Pairs(route_directions), Kept)

\* an event with two affected directions, after an unaffected one
C9_Witness ==
    /\ MatchReturned
    /\ Len(route_directions) >= 3
    /\ \E id \in DOMAIN affected_routes :
        /\ Len(affected_routes[id].affected_directions) = 2
        /\ PairOf(affected_routes[id].affected_directions[1]) # PairOf(route_directions[1])

(***************************************************************************)
(* C10                                                                     *)
(***************************************************************************)
\* C10: after start-up no step changes the route index: find_affected_routes
\* and add_route_info_to_dataframe leave route_directions as it was, in any
\* sequence of cycles.
C10_IndexReadOnly ==
    [][pc # "startup" =>
           (route_directions' = route_directions /\ bus_routes' = bus_routes)]_vars

\* an analysis has run to its end on an index of several directions and has
\* found affected directions
C10_Witness ==
    /\ pc = "analysed"
    /\ analysis = "complete"
    /\ Len(route_directions) >= 2
    /\ DOMAIN affected_routes # {}

(***************************************************************************)
(* C11                                                                     *)
(***************************************************************************)
Returned(fn) == call.fn = fn /\ ret # <<>>

\* the segments of polyline on which point lies within tolerance_meters
Qualifying(point, polyline, tolerance_meters) ==
    {i \in 0..(Len(polyline) - 2) :
        point_on_line_segment(point, polyline[i + 1], polyline[i + 2], tolerance_meters)}

\* C11: point_on_polyline returns (True, i) for the smallest segment index i
\* whose segment satisfies point_on_line_segment within the tolerance, also
\* when later segments qualify, and (False, None) when no segment qualifies
\* or the polyline has fewer than 2 points.
C11_FirstSegment ==
    Returned("point_on_polyline") =>
        LET q == Qualifying(call.args[1], call.args[2], call.args[3])
        IN  IF q = {}
            THEN ret[1] = [found |-> FALSE, index |-> <<>>]
            ELSE /\ ret[1].found
                 /\ Len(ret[1].index) = 1
                 /\ ret[1].index[1] \in q
                 /\ \A i \in q : ret[1].index[1] <= i

\* the point lies on two segments of the path and the first one is returned
C11_Witness ==
    /\ Returned("point_on_polyline")
    /\ Cardinality(Qualifying(call.args[1], call.args[2], call.args[3])) >= 2
    /\ ret[1] = [found |-> TRUE, index |-> <<0>>]

(***************************************************************************)
(* C12 - C15                                                               *)
(***************************************************************************)
\* s up to its first '-', s itself when it has none
BeforeSeparator(s) ==
    LET seps == {k \in 1..Len(s) : s[k] = "-"}
    IN  IF seps = {} THEN s
        ELSE SubSeq(s, 1, (CHOOSE k \in seps : \A j \in seps : k <= j) - 1)

\* the affected directions handed over for event 1, and its row after the call
DirectionsOfCall ==
    IF Str(IntId(1)) \in DOMAIN call.args[2]
    THEN call.args[2][Str(IntId(1))].affected_directions
    ELSE <<>>
AnnotatedRow == ret[1][1]

\* the positions of ads that are the first with their cleaned route id
FirstOfCleaned(ads) ==
    {k \in 1..Len(ads) :
        \A j \in 1..(k - 1) : BeforeSeparator(ads[j].route_id) # BeforeSeparator(ads[k].route_id)}

\* C12: when several affected directions of an event clean to the same route
\* id, the annotation keeps that id once, paired with the headsign
\* (direction) of the first such affected direction, and drops the
\* directions of the later ones.
C12_FirstOccurrenceWins ==
    (Returned("add_route_info_to_dataframe") /\ DirectionsOfCall # <<>>) =>
        LET ads == DirectionsOfCall
            firsts == FirstOfCleaned(ads)
            Cleaned(k) == BeforeSeparator(ads[k].route_id)
            shared == {k \in firsts : \E j \in 1..Len(ads) : j # k /\ Cleaned(j) = Cleaned(k)}
            routes == AnnotatedRow.route.items
            headsigns == AnnotatedRow.headsign.items
        IN  /\ Len(headsigns) = Len(routes)
            /\ \A k \in shared :
                /\ Cardinality({i \in 1..Len(routes) : routes[i] = Cleaned(k)}) = 1
                /\ \A i \in 1..Len(routes) :
                       routes[i] = Cleaned(k) => headsigns[i] = ads[k].direction

\* the shape of both cells: a scalar string, or a sequence of n strings
Scalar(cell) == cell.kind = "str" /\ Len(cell.items) = 1
SequenceOf(cell, n) == cell.kind = "list" /\ Len(cell.items) = n

C14_AbsentUnannotated ==
    Returned("add_route_info_to_dataframe") =>
        /\ Len(ret[1]) = Len(call.args[1])
        /\ \A k \in 1..Len(call.args[1]) :
            /\ [ret[1][k] EXCEPT !.route = Unset, !.headsign = Unset] = call.args[1][k]
            /\ Str(call.args[1][k].ID) \notin DOMAIN call.args[2] =>
                   (ret[1][k].route = NoneCell /\ ret[1][k].headsign = NoneCell)

\* a frame of two events of which the first alone is in the MatchResult
C14_Witness ==
    /\ Returned("add_route_info_to_dataframe")
    /\ Len(ret[1]) = 2
    /\ ret[1][1].route.kind = "str"
    /\ ret[1][2].route = NoneCell

\* C15: the cleaned route id is the raw route_id truncated at its first '-'
\* (the separator and all that follows removed); a route_id without a
\* separator is unchanged.
C15_CleanedRouteId ==
    (Returned("add_route_info_to_dataframe") /\ DirectionsOfCall # <<>>) =>
        LET ads == DirectionsOfCall
            routes == AnnotatedRow.route.items
        IN  /\ SeqSet(routes) = {BeforeSeparator(ads[k].route_id) : k \in 1..Len(ads)}
            /\ \A k \in 1..Len(ads) :
                ~InSeq("-", ads[k].route_id) => InSeq(ads[k].route_id, routes)

\* a route id with two separators is cut at the first, next to one without
C15_Witness ==
    /\ Returned("add_route_info_to_dataframe")
    /\ Len(DirectionsOfCall) = 2
    /\ DirectionsOfCall[1].route_id = <<"7", "-", "1", "-", "2">>
    /\ DirectionsOfCall[2].route_id = <<"6", "-", "1">>
    /\ AnnotatedRow.route.items = <<<<"7">>, <<"6">>>>

(***************************************************************************)
(* C16                                                                     *)
(***************************************************************************)
\* the route segments j that segment i of polyline1 intersects
HitBy(polyline1, polyline2, i) ==
    {j \in 0..(Len(polyline2) - 2) :
        line_segments_intersect(polyline1[i + 1], polyline1[i + 2],
                                polyline2[j + 1], polyline2[j + 2])}

\* C16: polylines_intersect returns a list of segment indices of polyline1
\* in which every index occurs at most once, in first-discovery order (the
\* order of the outer loop), every index lies in [0, len(polyline1)-2] and
\* is an intersecting segment, and the boolean is true exactly when the list
\* is not empty; with a polyline of fewer than 2 points it returns
\* (False, []).
C16_SegmentList ==
    Returned("polylines_intersect") =>
        LET polyline1 == call.args[1]
            polyline2 == call.args[2]
            segs == ret[1].segments
        IN  /\ \A a \in 1..Len(segs) : \A b \in 1..Len(segs) : a < b => segs[a] < segs[b]
            /\ \A a \in 1..Len(segs) :
                /\ segs[a] \in 0..(Len(polyline1) - 2)
                /\ HitBy(polyline1, polyline2, segs[a]) # {}
            /\ \A i \in 0..(Len(polyline1) - 2) :
                HitBy(polyline1, polyline2, i) # {} => InSeq(i, segs)
            /\ ret[1].intersects <=> (segs # <<>>)
            /\ (Len(polyline1) < 2 \/ Len(polyline2) < 2) =>
                   ret[1] = [intersects |-> FALSE, segments |-> <<>>]

\* both segments of polyline1 intersect polyline2, the first one twice
C16_Witness ==
    /\ Returned("polylines_intersect")
    /\ ret[1] = [intersects |-> TRUE, segments |-> <<0, 1>>]
    /\ Cardinality(HitBy(call.args[1], call.args[2], 0)) = 2

(***************************************************************************)
(* C17 - C19.  Segments are judged in the plane of to_cartesian.           *)
(***************************************************************************)
\* C17: line_segments_intersect is symmetric in its two segments:
\* line_segments_intersect(A,B,C,D) = line_segments_intersect(C,D,A,B), the
\* collinear and endpoint-touching cases included.
C17_Symmetric ==
    Returned("line_segments_intersect") =>
        ret[1] = line_segments_intersect(call.args[3], call.args[4],
                                         call.args[1], call.args[2])

\* an end of the second segment lies inside the first one (a T junction)
C17_Witness ==
    /\ Returned("line_segments_intersect")
    /\ call.args = <<Loc(0, -1), Loc(0, 1), Loc(0, 0), Loc(60, 0)>>
    /\ ret[1] = TRUE

\* plane vectors
Vec(p, q) == [x |-> q.x - p.x, y |-> q.y - p.y]
Cross(u, v) == u.x * v.y - u.y * v.x
Dot(u, v) == u.x * v.x + u.y * v.y
Zero(u) == u.x = 0 /\ u.y = 0

\* q is a point of the segment from p to r
OnSegment(q, p, r) ==
    IF Zero(Vec(p, r)) THEN q = p
    ELSE /\ Cross(Vec(p, q), Vec(p, r)) = 0
         /\ Dot(Vec(p, q), Vec(p, r)) >= 0
         /\ Dot(Vec(p, q), Vec(p, r)) <= Dot(Vec(p, r), Vec(p, r))

\* the segments p1p2 and p3p4 have a common point: p1 + t r = p3 + u s with
\* t and u in [0, 1], solved for t and u
PlanarIntersect(p1, p2, p3, p4) ==
    LET r == Vec(p1, p2)
        s == Vec(p3, p4)
        w == Vec(p1, p3)
        d == Cross(r, s)
    IN  IF Zero(r) THEN OnSegment(p1, p3, p4)
        ELSE IF Zero(s) THEN OnSegment(p3, p1, p2)
        ELSE IF d > 0
        THEN /\ 0 <= Cross(w, s) /\ Cross(w, s) <= d
             /\ 0 <= Cross(w, r) /\ Cross(w, r) <= d
        ELSE IF d < 0
        THEN /\ 0 >= Cross(w, s) /\ Cross(w, s) >= d
             /\ 0 >= Cross(w, r) /\ Cross(w, r) >= d
        ELSE IF Cross(w, r) # 0 THEN FALSE
        ELSE LET t0 == Dot(w, r)
                 t1 == Dot(Vec(p1, p4), r)
             IN  Max2(t0, t1) >= 0 /\ Min2(t0, t1) <= Dot(r, r)

\* the four points of the call in the plane
PlanePoints == [k \in 1..4 |-> to_cartesian(call.args[k])]

Collinear(P) ==
    /\ Cross(Vec(P[1], P[2]), Vec(P[3], P[4])) = 0
    /\ Cross(Vec(P[1], P[3]), Vec(P[1], P[2])) = 0
    /\ Cross(Vec(P[1], P[4]), Vec(P[1], P[2])) = 0

\* an end of one segment is a point of the other
Touching(P) ==
    \/ OnSegment(P[1], P[3], P[4]) \/ OnSegment(P[2], P[3], P[4])
    \/ OnSegment(P[3], P[1], P[2]) \/ OnSegment(P[4], P[1], P[2])

\* C18: in the collinear and boundary cases the result is that of true
\* planar segment intersection: true for two segments that touch at an
\* endpoint and for two collinear segments that overlap, false for two
\* collinear segments that are disjoint.
C18_BoundaryCases ==
    Returned("line_segments_intersect") =>
        LET P == PlanePoints
        IN  /\ Touching(P) => ret[1] = TRUE
            /\ Collinear(P) => ret[1] = PlanarIntersect(P[1], P[2], P[3], P[4])

\* two collinear segments that overlap without sharing an endpoint
C18_Witness ==
    /\ Returned("line_segments_intersect")
    /\ call.args = <<Loc(0, -1), Loc(0, 1), Loc(0, 0), Loc(0, 2)>>
    /\ Collinear(PlanePoints)
    /\ ret[1] = TRUE

\* C19: line_segments_intersect returns false for every pair of segments
\* that are parallel and not collinear.
C19_ParallelNeverIntersect ==
    Returned("line_segments_intersect") =>
        LET P == PlanePoints
            r == Vec(P[1], P[2])
            s == Vec(P[3], P[4])
        IN  (~Zero(r) /\ ~Zero(s) /\ Cross(r, s) = 0 /\ Cross(Vec(P[1], P[3]), r) # 0)
                => ret[1] = FALSE

\* two parallel slanted segments whose bounding boxes overlap
C19_Witness ==
    /\ Returned("line_segments_intersect")
    /\ call.args = <<Loc(0, 0), Loc(60, 2), Loc(0, -1), Loc(60, 0)>>
    /\ Cross(Vec(PlanePoints[1], PlanePoints[2]), Vec(PlanePoints[3], PlanePoints[4])) = 0
    /\ ret[1] = FALSE

(***************************************************************************)
(* C20                                                                     *)
(***************************************************************************)
\* the point, the segment and the tolerance of the call, in the plane
SegmentOfCall ==
    LET p == to_cartesian(call.args[1])
        a == to_cartesian(call.args[2])
        b == to_cartesian(call.args[3])
    IN  [cross |-> Abs(Cross(Vec(a, p), Vec(a, b))),
         dot |-> Dot(Vec(a, p), Vec(a, b)),
         len2 |-> Dot(Vec(a, b), Vec(a, b)),
         tol |-> call.args[4]]

\* the perpendicular distance cross / sqrt(len2), in units of UnitMeters, is
\* at most tol metres: squared, and with tol a multiple or a divisor of
\* UnitMeters (every tolerance of ToleranceSet is one)
DistanceAtMost(cross, len2, tol) ==
    IF tol % UnitMeters = 0
    THEN cross * cross <= (tol \div UnitMeters) * (tol \div UnitMeters) * len2
    ELSE cross * cross <= (len2 \div (UnitMeters \div tol)) \div (UnitMeters \div tol)

\* C20: the tolerance is inclusive: for a non-degenerate segment and a point
\* whose projection lies within the segment, point_on_line_segment returns
\* true when the perpendicular distance is tolerance_meters or less and
\* false when it is greater.
C20_ToleranceInclusive ==
    Returned("point_on_line_segment") =>
        LET c == SegmentOfCall
        IN  (c.len2 > 0 /\ c.dot >= 0 /\ c.dot <= c.len2) =>
                ret[1] = DistanceAtMost(c.cross, c.len2, c.tol)

\* a point at exactly tolerance_meters from the segment is on it
C20_Witness ==
    /\ Returned("point_on_line_segment")
    /\ LET c == SegmentOfCall
       IN  /\ c.len2 > 0 /\ c.dot > 0 /\ c.dot < c.len2
           /\ c.tol = MetersPerDegree
           /\ c.cross * c.cross = 4 * c.len2
    /\ ret[1] = TRUE

(***************************************************************************)
(* C21                                                                     *)
(***************************************************************************)
\* the point of the call is within tol metres of the end e of the segment
NearEnd(e) ==
    LET p == to_cartesian(call.args[1])
        q == to_cartesian(call.args[e])
        d2 == Dot(Vec(q, p), Vec(q, p))
        tol == call.args[4]
    IN  /\ tol % UnitMeters = 0
        /\ d2 <= (tol \div UnitMeters) * (tol \div UnitMeters)

\* C21: point_on_line_segment uses the unclamped projection: a point whose
\* projection onto the line through a and b falls before a or beyond b (dot
\* product of ap with ab below 0 or above |ab|^2) is rejected for every
\* tolerance, even at zero perpendicular distance and even when it is within
\* tolerance_meters of an endpoint.
C21_UnclampedProjection ==
    Returned("point_on_line_segment") =>
        LET c == SegmentOfCall
        IN  (c.dot < 0 \/ c.dot > c.len2) => ret[1] = FALSE

\* a point on the line of the segment, beyond b and within the tolerance of
\* b, is rejected
C21_Witness ==
    /\ Returned("point_on_line_segment")
    /\ LET c == SegmentOfCall
       IN  c.len2 > 0 /\ c.cross = 0 /\ c.dot > c.len2
    /\ call.args[1] # call.args[3]
    /\ NearEnd(3)
    /\ ret[1] = FALSE

(***************************************************************************)
(* C22                                                                     *)
(***************************************************************************)
\* the (route, direction) pairs of the dataset in iteration order, as
\* positions <<i, d>>: direction d of route i
RECURSIVE DatasetPairs(_, _)
DatasetPairs(routes, i) ==
    IF i > Len(routes) THEN <<>>
    ELSE [d \in 1..Len(routes[i].directions) |-> <<i, d>>] \o DatasetPairs(routes, i + 1)

\* rd is the RouteDirection of direction d of route i of the dataset
IsDirectionOf(rd, routes, i, d) ==
    LET pairs == routes[i].directions[d].coordinates
    IN  /\ rd.route_id = routes[i].route_id
        /\ rd.direction = routes[i].directions[d].name
        /\ Len(rd.coordinates) = Len(pairs)
        /\ \A k \in 1..Len(pairs) :
               /\ rd.coordinates[k].lat = pairs[k][2]
               /\ rd.coordinates[k].lng = pairs[k][1]

\* start-up is over and load_bus_routes met no exception
LoadedWell == pc # "startup" /\ file.readable /\ ~load_failed

\* C22: a successful load_bus_routes on a fresh matcher yields a flat
\* route_directions list with exactly one RouteDirection per (route_id,
\* direction_name) pair of the dataset, in dataset iteration order, whose
\* coordinates are the dataset's [lng, lat] pairs in order with each pair
\* mapped to Location(lat = pair[1], lng = pair[0]).
C22_LoadResult ==
    LoadedWell =>
        LET pairs == DatasetPairs(file.routes, 1)
        IN  /\ Len(route_directions) = Len(pairs)
            /\ \A k \in 1..Len(pairs) :
                   IsDirectionOf(route_directions[k], file.routes, pairs[k][1], pairs[k][2])

\* two routes, the first with two directions, were loaded: three entries,
\* and a coordinate whose latitude differs from its longitude
C22_Witness ==
    /\ LoadedWell
    /\ Len(file.routes) = 2
    /\ Len(file.routes[1].directions) = 2
    /\ Len(route_directions) = 3
    /\ route_directions[3].route_id = file.routes[2].route_id
    /\ route_directions[1].coordinates[1].lat # route_directions[1].coordinates[1].lng

(***************************************************************************)
(* C23                                                                     *)
(***************************************************************************)
\* a required environment variable is missing, or the feed call returned
\* nothing or a payload without 'features'
Outage(cfg, data) == ~cfg.env_ok \/ data.kind \in {"None", "no_features"}

\* the rows of tbl whose 'resolved' is null or empty
OpenRows(tbl) == {i \in 1..Len(tbl) : tbl[i].resolved \in {Null, ""}}

\* C23: in upload_traffic_events, when a required environment variable is
\* missing, or the traffic feed call returns nothing or a payload without
\* 'features', the cycle ends without calling upload_to_db, so no database
\* record is inserted, updated or stamped 'resolved' in that cycle: the step
\* that meets the outage ends the cycle with no call and no request and
\* leaves the table as it is, and so does the step to the next cycle.
C23_NoUploadOnOutage ==
    [][/\ (pc = "idle" /\ Outage(config, feed')) =>
            /\ pc' = "done"
            /\ uploaded' = NotUploaded
            /\ table' = table
       /\ pc = "done" => table' = table]_vars

\* the feed call failed while the table holds an open row, and the cycle is
\* over: the row is still open and nothing was sent
C23_Witness ==
    /\ pc = "done"
    /\ config.env_ok
    /\ feed.kind = "None"
    /\ OpenRows(table) # {}
    /\ uploaded = NotUploaded

(***************************************************************************)
(* C24                                                                     *)
(***************************************************************************)
\* upload_to_db was called in this cycle and read the rows of the table
Uploaded == uploaded.called /\ uploaded.get = "list"

\* the rows read whose ID, as text, is that of id
RowsOf(id) ==
    {i \in 1..Len(uploaded.existing) : Str(uploaded.existing[i].ID) = Str(id)}

\* the requests of kind op sent for id
RequestsFor(ops, id) ==
    {k \in 1..Len(uploaded.requests) :
        uploaded.requests[k].op \in ops /\ Str(uploaded.requests[k].id) = Str(id)}

\* id is the ID of an event of the cycle
InEvents(id) == \E k \in 1..Len(uploaded.records) : Str(uploaded.records[k].ID) = Str(id)

\* C24: across any sequence of upload_to_db cycles, a stored record is
\* stamped 'resolved' only in a cycle where its ID is absent from that
\* cycle's events and its resolved field is empty; a record whose resolved
\* field is already set is never re-stamped, a record whose ID is in the
\* current events is never stamped, and every event of the cycle is written
\* exactly once, as an update when its ID already exists in the table and as
\* an insert otherwise.
C24_StampAndWrite ==
    Uploaded =>
        /\ \A k \in 1..Len(uploaded.requests) :
               uploaded.requests[k].op = "resolved" =>
                   /\ ~InEvents(uploaded.requests[k].id)
                   /\ RowsOf(uploaded.requests[k].id) # {}
                   /\ \A i \in RowsOf(uploaded.requests[k].id) :
                          uploaded.existing[i].resolved \in {Null, ""}
        /\ \A k \in 1..Len(uploaded.records) :
               LET id == uploaded.records[k].ID
               IN  /\ Cardinality(RequestsFor({"update", "insert"}, id)) = 1
                   /\ \A j \in RequestsFor({"update", "insert"}, id) :
                          uploaded.requests[j].op =
                              IF RowsOf(id) # {} THEN "update" ELSE "insert"

====
